---- MODULE Spec2Model ----
(***************************************************************************)
(* The three DAG files of the repository (src/dags), the loading of those  *)
(* files into a DagBag, and the orchestration engine's documented          *)
(* treatment of what they declare: task ordering and retries inside a DAG  *)
(* run, the SQL statements' effect on table dag_runs, cron schedules and   *)
(* catchup.                                                                *)
(***************************************************************************)
EXTENDS Integers, Sequences, FiniteSets, Bags, TLC

VARIABLES
    pc,             \* file -> index of the next statement to execute
    env,            \* file -> the module's Python state while it is imported
    dagbag,         \* dag_id -> the collected DAG
    import_errors,  \* files whose import raised
    run,            \* the latest DAG run: its task instances and what it did
    table,          \* the database table dag_runs
    nruns,          \* DAG runs created so far
    completed,      \* run dates of the SQL workflow that ended in success
    any_failed,     \* some run of the SQL workflow ended failed
    pk_conflict,    \* some INSERT raised a unique violation
    cron_expr,      \* the schedule string handed to the cron matcher
    cron_at,        \* the instant it is asked about
    cron_hit,       \* its answer: "yes", "no", or "" before it is asked
    sdag,           \* the workflow the scheduler is looked at for
    now,            \* the current time, in minutes since 1970-01-01 00:00
    activated_at,   \* when the workflow was switched on, -1 before
    last_logical,   \* start of the last interval the scheduler dealt with
    runs,           \* logical dates of the runs created, in order
    done            \* logical dates of the runs executed, in order

parseVars == <<pc, env, dagbag, import_errors>>
runVars == <<run, table, nruns, completed, any_failed, pk_conflict>>
cronVars == <<cron_expr, cron_at, cron_hit>>
schedVars == <<sdag, now, activated_at, last_logical, runs, done>>
vars == <<parseVars, runVars, cronVars, schedVars>>

-----------------------------------------------------------------------------
(* The files, statement by statement.                                      *)

FCatchup == "dag_with_catchup_and_backfill.py"
FCron == "dag_with_cron_expression.py"
FPostgres == "dag_with_postgres_operator.py"

Files == {FCatchup, FCron, FPostgres}

NoArgs == [k \in {} |-> 0]

\* The characters of a schedule string.
DailyPreset == <<"@", "d", "a", "i", "l", "y">>
\* Faulty variant: minute and hour fields exchanged.
TuesdayCron_FieldsSwapped ==
    <<"3", " ", "0", " ", "*", " ", "*", " ", "T", "u", "e">>

TuesdayCron == <<"0", " ", "3", " ", "*", " ", "*", " ", "T", "u", "e">>
MidnightCron == <<"0", " ", "0", " ", "*", " ", "*", " ", "*">>

\* Faulty variant: the retry delay of the other two files.
CatchupDefaultArgs_FiveMinutes ==
    [op |-> "default_args",
     args |-> [owner |-> "afrith", retries |-> 5, retry_delay |-> 5]]

\* default_args of dag_with_catchup_and_backfill.py: retry_delay in minutes.
CatchupDefaultArgs ==
    [op |-> "default_args",
     args |-> [owner |-> "afrith", retries |-> 5, retry_delay |-> 2]]

\* Faulty variant: catchup switched off.
CatchupDag_NoCatchup ==
    [op |-> "with_dag", dag_id |-> "dag_with_catchup_and_backfill_v02",
     start_date |-> <<2025, 12, 21>>, schedule |-> DailyPreset, catchup |-> FALSE]

CatchupDag ==
    [op |-> "with_dag", dag_id |-> "dag_with_catchup_and_backfill_v02",
     start_date |-> <<2025, 12, 21>>, schedule |-> DailyPreset, catchup |-> TRUE]

CatchupTask1 ==
    [op |-> "operator", var |-> "task1", task_id |-> "task1",
     kind |-> "bash", body |-> "echo This is a simple bash command!",
     kwargs |-> NoArgs]

CatchupFile ==
    <<CatchupDefaultArgs, CatchupDag, CatchupTask1, [op |-> "end_with"]>>

CronDefaultArgs ==
    [op |-> "default_args",
     args |-> [owner |-> "afrith", retries |-> 5, retry_delay |-> 5]]

\* Faulty variant: the identifier of the catchup workflow, copied.
CronDag_CopiedId ==
    [op |-> "with_dag", dag_id |-> "dag_with_catchup_and_backfill_v02",
     start_date |-> <<2025, 12, 16>>, schedule |-> TuesdayCron, catchup |-> TRUE]

CronDag ==
    [op |-> "with_dag", dag_id |-> "dag_with_cron_expression_v04",
     start_date |-> <<2025, 12, 16>>, schedule |-> TuesdayCron, catchup |-> TRUE]

CronTask1 ==
    [op |-> "operator", var |-> "task1", task_id |-> "task1",
     kind |-> "bash", body |-> "echo dag with cron expression!",
     kwargs |-> NoArgs]

CronFile ==
    <<CronDefaultArgs, CronDag, CronTask1,
      [op |-> "chain", operands |-> <<"task1">>], [op |-> "end_with"]>>

PostgresDefaultArgs ==
    [op |-> "default_args",
     args |-> [owner |-> "afrith", retries |-> 5, retry_delay |-> 5]]

PostgresDag ==
    [op |-> "with_dag", dag_id |-> "dag_with_postgres_operator_v03",
     start_date |-> <<2025, 12, 16>>, schedule |-> MidnightCron, catchup |-> FALSE]

PostgresTask1 ==
    [op |-> "operator", var |-> "task1", task_id |-> "create_postgres_table",
     kind |-> "sql", body |-> "CREATE TABLE IF NOT EXISTS", kwargs |-> NoArgs]

\* Faulty variant: the step sets a retry count of its own.
PostgresTask2_OwnRetries ==
    [op |-> "operator", var |-> "task2", task_id |-> "insert_into_table",
     kind |-> "sql", body |-> "INSERT", kwargs |-> [retries |-> 0]]

PostgresTask2 ==
    [op |-> "operator", var |-> "task2", task_id |-> "insert_into_table",
     kind |-> "sql", body |-> "INSERT", kwargs |-> NoArgs]

PostgresTask3 ==
    [op |-> "operator", var |-> "task3", task_id |-> "delete_data_from_table",
     kind |-> "sql", body |-> "DELETE", kwargs |-> NoArgs]

\* Faulty variants: the variables chained in the order of their numbers; the last
\* link left out; a link back to the first step.
PostgresChain_VariableOrder ==
    [op |-> "chain", operands |-> <<"task1", "task2", "task3">>]

PostgresChain_NoLastLink == [op |-> "chain", operands |-> <<"task1", "task3">>]

PostgresChain_Cycle ==
    [op |-> "chain", operands |-> <<"task1", "task3", "task2", "task1">>]

\* task1 >> task3 >> task2
PostgresChain == [op |-> "chain", operands |-> <<"task1", "task3", "task2">>]

PostgresFile ==
    <<PostgresDefaultArgs, PostgresDag, PostgresTask1, PostgresTask2,
      PostgresTask3, PostgresChain, [op |-> "end_with"]>>

FileText(f) ==
    CASE f = FCatchup -> CatchupFile
      [] f = FCron -> CronFile
      [] f = FPostgres -> PostgresFile

-----------------------------------------------------------------------------
(* Importing a file.                                                       *)

NoDag == [dag_id |-> ""]

EmptyEnv ==
    [default_args |-> NoArgs, dag |-> NoDag, in_with |-> FALSE,
     names |-> [v \in {} |-> ""], raised |-> FALSE]

\* An operator argument: the operator's own keyword argument when it gives
\* one, else the DAG's default_args entry, else the engine's default.
ArgOf(kwargs, default_args, key, fallback) ==
    IF key \in DOMAIN kwargs THEN kwargs[key]
    ELSE IF key \in DOMAIN default_args THEN default_args[key]
    ELSE fallback

\* DAG(...): the DAG object the with statement binds.
NewDag(st, default_args) ==
    [dag_id |-> st.dag_id, default_args |-> default_args,
     start_date |-> st.start_date, schedule |-> st.schedule,
     catchup |-> st.catchup,
     task_ids |-> <<>>, task_dict |-> [t \in {} |-> 0], edges |-> {}]

\* BashOperator(...) / SQLExecuteQueryOperator(...) inside the with block.
NewTask(st, dag) ==
    [task_id |-> st.task_id, kind |-> st.kind, body |-> st.body,
     owner |-> ArgOf(st.kwargs, dag.default_args, "owner", "airflow"),
     retries |-> ArgOf(st.kwargs, dag.default_args, "retries", 0),
     retry_delay |-> ArgOf(st.kwargs, dag.default_args, "retry_delay", 5)]

\* a >> b >> c: set_downstream on each consecutive pair, left to right.
ChainEdges(operands, names) ==
    {<<names[operands[i]], names[operands[i + 1]]>> :
        i \in 1..(Len(operands) - 1)}

ExecStmt(st, e) ==
    CASE st.op = "default_args" -> [e EXCEPT !.default_args = st.args]
      [] st.op = "with_dag" ->
            [e EXCEPT !.dag = NewDag(st, e.default_args), !.in_with = TRUE]
      [] st.op = "operator" ->
            IF st.task_id \in DOMAIN e.dag.task_dict
            THEN [e EXCEPT !.raised = TRUE]
            ELSE [e EXCEPT
                    !.names = (st.var :> st.task_id) @@ e.names,
                    !.dag = [e.dag EXCEPT
                        !.task_ids = Append(e.dag.task_ids, st.task_id),
                        !.task_dict = (st.task_id :> NewTask(st, e.dag))
                                        @@ e.dag.task_dict]]
      [] st.op = "chain" ->
            [e EXCEPT !.dag = [e.dag EXCEPT
                !.edges = e.dag.edges \cup ChainEdges(st.operands, e.names)]]
      [] st.op = "end_with" -> [e EXCEPT !.in_with = FALSE]

ParseInit ==
    /\ pc = [f \in Files |-> 1]
    /\ env = [f \in Files |-> EmptyEnv]
    /\ dagbag = [d \in {} |-> NoDag]
    /\ import_errors = {}

\* One statement of file f is executed. A statement that raises ends the
\* import: the file is recorded and none of its DAGs is collected.
ExecNext(f) ==
    /\ pc[f] <= Len(FileText(f))
    /\ LET e == ExecStmt(FileText(f)[pc[f]], env[f]) IN
        /\ env' = [env EXCEPT ![f] = e]
        /\ IF e.raised
           THEN /\ import_errors' = import_errors \cup {f}
                /\ pc' = [pc EXCEPT ![f] = Len(FileText(f)) + 2]
           ELSE /\ pc' = [pc EXCEPT ![f] = pc[f] + 1]
                /\ UNCHANGED import_errors
    /\ UNCHANGED <<dagbag, runVars, cronVars, schedVars>>

\* The module's top-level DAG is put in the bag; an id already in the bag
\* from another file is an import error of this file.
Collect(f) ==
    /\ pc[f] = Len(FileText(f)) + 1
    /\ IF env[f].dag.dag_id \in DOMAIN dagbag
       THEN /\ import_errors' = import_errors \cup {f}
            /\ UNCHANGED dagbag
       ELSE /\ dagbag' = (env[f].dag.dag_id :> env[f].dag) @@ dagbag
            /\ UNCHANGED import_errors
    /\ pc' = [pc EXCEPT ![f] = pc[f] + 1]
    /\ UNCHANGED <<env, runVars, cronVars, schedVars>>

ParseNext ==
    \/ \E f \in Files : ExecNext(f)
    \/ \E f \in Files : Collect(f)

-----------------------------------------------------------------------------
(* The DAGs once every file is imported.                                   *)

RECURSIVE ExecAll(_, _, _)
ExecAll(text, i, e) ==
    IF i > Len(text) THEN e ELSE ExecAll(text, i + 1, ExecStmt(text[i], e))

LoadedDag(f) == ExecAll(FileText(f), 1, EmptyEnv).dag

LoadedDagBag ==
    [d \in {LoadedDag(f).dag_id : f \in Files} |->
        LoadedDag(CHOOSE f \in Files : LoadedDag(f).dag_id = d)]

PgDagId == PostgresDag.dag_id

TaskIds(dag) == DOMAIN dag.task_dict
Upstream(dag, t) == {u \in TaskIds(dag) : <<u, t>> \in dag.edges}
Downstream(dag, t) == {u \in TaskIds(dag) : <<t, u>> \in dag.edges}
Roots(dag) == {t \in TaskIds(dag) : Upstream(dag, t) = {}}
Leaves(dag) == {t \in TaskIds(dag) : Downstream(dag, t) = {}}

-----------------------------------------------------------------------------
(* One DAG run at a time: task instances, retries, the SQL statements.     *)

NumDates == 2
MaxRuns == 2
\* Runs followed to their end where termination is checked: runs do not
\* overlap, so each ends or not on its own.
MaxFairRuns == 1

RunDates == 1..NumDates

NoRun == [id |-> 0, state |-> "none"]
NoTable == [exists |-> FALSE, pk |-> FALSE, rows |-> EmptyBag]

NewTI == [state |-> "none", try_number |-> 0, waited |-> 0]

Terminal == {"success", "failed", "upstream_failed"}

\* Every file has been imported.
Loaded ==
    /\ pc = [f \in Files |-> Len(FileText(f)) + 2]
    /\ env = [f \in Files |-> ExecAll(FileText(f), 1, EmptyEnv)]
    /\ dagbag = LoadedDagBag
    /\ import_errors = {}

\* No run exists and the table has not been created.
RunIdle ==
    /\ run = NoRun
    /\ table = NoTable
    /\ nruns = 0
    /\ completed = {}
    /\ any_failed = FALSE
    /\ pk_conflict = FALSE

\* The cron matcher has not been asked anything.
CronIdle == cron_expr = <<>> /\ cron_at = 0 /\ cron_hit = ""

\* The scheduler has not looked at any workflow.
SchedIdle ==
    /\ sdag = ""
    /\ now = 0
    /\ activated_at = -1
    /\ last_logical = -1
    /\ runs = <<>>
    /\ done = <<>>

\* Faulty variant: the run date is not filled in.
RowKey_FixedDate(ds, dag_id) == <<1, dag_id>>

\* The key ('{{ ds }}', '{{ dag.dag_id }}') of a run.
RowKey(ds, dag_id) == <<ds, dag_id>>

\* Faulty variant: DELETE without its WHERE clause.
DeleteWhere_All(rows, ds, dag_id) == EmptyBag

\* The rows left by DELETE ... WHERE dt = ds and dag_id = dag_id.
DeleteWhere(rows, ds, dag_id) ==
    [k \in DOMAIN rows \ {RowKey(ds, dag_id)} |-> rows[k]]

\* The statement of a SQL task with {{ ds }} and {{ dag.dag_id }} filled in,
\* executed on table tbl: whether it raised, and the table afterwards.
SqlEffect(body, ds, dag_id, tbl) ==
    CASE body = "CREATE TABLE IF NOT EXISTS" ->
            [error |-> "",
             table |-> IF tbl.exists THEN tbl
                       ELSE [exists |-> TRUE, pk |-> TRUE, rows |-> EmptyBag]]
      [] body = "DELETE" ->
            IF ~tbl.exists THEN [error |-> "undefined_table", table |-> tbl]
            ELSE [error |-> "",
                  table |-> [tbl EXCEPT !.rows = DeleteWhere(tbl.rows, ds, dag_id)]]
      [] body = "INSERT" ->
            IF ~tbl.exists THEN [error |-> "undefined_table", table |-> tbl]
            ELSE IF tbl.pk /\ BagIn(RowKey(ds, dag_id), tbl.rows)
            THEN [error |-> "unique_violation", table |-> tbl]
            ELSE [error |-> "",
                  table |-> [tbl EXCEPT !.rows =
                      tbl.rows (+) SetToBag({RowKey(ds, dag_id)})]]

\* What an attempt of task does to the table when its command is executed.
Execute(task, ds, dag_id, tbl) ==
    IF task.kind = "sql" THEN SqlEffect(task.body, ds, dag_id, tbl)
    ELSE [error |-> "", table |-> tbl]

\* The wait before the attempt that follows attempt number try of task.
RetryDelay(task, try) == task.retry_delay

\* Keys whose number of rows differs between two tables.
Changed(a, b) ==
    {k \in DOMAIN a.rows \cup DOMAIN b.rows :
        CopiesIn(k, a.rows) # CopiesIn(k, b.rows)}

RunInit ==
    /\ Loaded
    /\ CronIdle
    /\ SchedIdle
    /\ run = NoRun
    /\ table \in {NoTable, [exists |-> TRUE, pk |-> TRUE, rows |-> EmptyBag]}
    /\ nruns = 0
    /\ completed = {}
    /\ any_failed = FALSE
    /\ pk_conflict = FALSE

Active == run.state = "running"

\* A run of dag d for run date ds is created (scheduled, triggered by hand,
\* backfilled or cleared) once the previous run has ended.
CreateRun(d, ds, limit) ==
    /\ ~Active
    /\ nruns < limit
    /\ nruns' = nruns + 1
    /\ run' = [id |-> nruns + 1, state |-> "running", dag_id |-> d, ds |-> ds,
               ti |-> [t \in TaskIds(dagbag[d]) |-> NewTI],
               touched |-> {}, added |-> {}, removed |-> {}]
    /\ UNCHANGED <<parseVars, cronVars, schedVars, table, completed, any_failed, pk_conflict>>

\* A task instance with no state starts once every upstream task instance
\* has succeeded (no task sets a trigger rule).
StartTask(t) ==
    /\ Active
    /\ run.ti[t].state = "none"
    /\ \A u \in Upstream(dagbag[run.dag_id], t) : run.ti[u].state = "success"
    /\ run' = [run EXCEPT !.ti[t] =
                  [state |-> "running", try_number |-> 1, waited |-> 0]]
    /\ UNCHANGED <<parseVars, cronVars, schedVars, table, nruns, completed, any_failed, pk_conflict>>

\* A task instance below a failed one is never run.
MarkUpstreamFailed(t) ==
    /\ Active
    /\ run.ti[t].state = "none"
    /\ \E u \in Upstream(dagbag[run.dag_id], t) :
            run.ti[u].state \in {"failed", "upstream_failed"}
    /\ run' = [run EXCEPT !.ti[t].state = "upstream_failed"]
    /\ UNCHANGED <<parseVars, cronVars, schedVars, table, nruns, completed, any_failed, pk_conflict>>

AfterFailure(task, ti) ==
    IF ti.try_number <= task.retries
    THEN [ti EXCEPT !.state = "up_for_retry"]
    ELSE [ti EXCEPT !.state = "failed"]

\* The attempt's command ran without error and the attempt is recorded as
\* a success.
AttemptSucceeds(t) ==
    /\ Active
    /\ run.ti[t].state = "running"
    /\ LET task == dagbag[run.dag_id].task_dict[t]
           r == Execute(task, run.ds, run.dag_id, table) IN
        /\ r.error = ""
        /\ table' = r.table
        /\ run' = [run EXCEPT
                     !.ti[t].state = "success",
                     !.touched = @ \cup Changed(table, r.table),
                     !.added = @ \cup {k \in Changed(table, r.table) :
                         CopiesIn(k, r.table.rows) > CopiesIn(k, table.rows)},
                     !.removed = @ \cup {k \in Changed(table, r.table) :
                         CopiesIn(k, r.table.rows) < CopiesIn(k, table.rows)}]
    /\ UNCHANGED <<parseVars, cronVars, schedVars, nruns, completed, any_failed, pk_conflict>>

\* The attempt fails: before its command reached the database ("before"),
\* because the command raised ("command"), or after the command was
\* committed ("after": the worker died before reporting).
AttemptFails(t, stage) ==
    /\ Active
    /\ run.ti[t].state = "running"
    /\ LET task == dagbag[run.dag_id].task_dict[t]
           r == Execute(task, run.ds, run.dag_id, table)
           after == IF stage = "after" THEN r.table ELSE table IN
        /\ stage = "command" => r.error # ""
        /\ stage = "after" => r.error = ""
        /\ table' = after
        /\ pk_conflict' =
              (pk_conflict \/ (stage = "command" /\ r.error = "unique_violation"))
        /\ run' = [run EXCEPT
                     !.ti[t] = AfterFailure(task, @),
                     !.touched = @ \cup Changed(table, after),
                     !.added = @ \cup {k \in Changed(table, after) :
                         CopiesIn(k, after.rows) > CopiesIn(k, table.rows)},
                     !.removed = @ \cup {k \in Changed(table, after) :
                         CopiesIn(k, after.rows) < CopiesIn(k, table.rows)}]
    /\ UNCHANGED <<parseVars, cronVars, schedVars, nruns, completed, any_failed>>

\* The retry delay has passed and the next attempt starts.
RetryTask(t) ==
    /\ Active
    /\ run.ti[t].state = "up_for_retry"
    /\ LET task == dagbag[run.dag_id].task_dict[t] IN
        run' = [run EXCEPT !.ti[t] =
                  [state |-> "running", try_number |-> @.try_number + 1,
                   waited |-> RetryDelay(task, @.try_number)]]
    /\ UNCHANGED <<parseVars, cronVars, schedVars, table, nruns, completed, any_failed, pk_conflict>>

\* Every task instance is finished: the run succeeds when all its leaf
\* task instances succeeded and fails otherwise.
FinishRun ==
    /\ Active
    /\ \A t \in DOMAIN run.ti : run.ti[t].state \in Terminal
    /\ LET ok == \A t \in Leaves(dagbag[run.dag_id]) :
                    run.ti[t].state = "success" IN
        /\ run' = [run EXCEPT !.state = IF ok THEN "success" ELSE "failed"]
        /\ completed' = IF ok /\ run.dag_id = PgDagId
                        THEN completed \cup {run.ds} ELSE completed
        /\ any_failed' = (any_failed \/ (~ok /\ run.dag_id = PgDagId))
    /\ UNCHANGED <<parseVars, cronVars, schedVars, table, nruns, pk_conflict>>

ActiveTaskIds == IF Active THEN DOMAIN run.ti ELSE {}

RunSteps ==
    \/ \E t \in ActiveTaskIds : StartTask(t)
    \/ \E t \in ActiveTaskIds : MarkUpstreamFailed(t)
    \/ \E t \in ActiveTaskIds : AttemptSucceeds(t)
    \/ \E t \in ActiveTaskIds, stage \in {"before", "command", "after"} :
            AttemptFails(t, stage)
    \/ \E t \in ActiveTaskIds : RetryTask(t)
    \/ FinishRun

RunNext ==
    \/ \E d \in DOMAIN dagbag, ds \in RunDates : CreateRun(d, ds, MaxRuns)
    \/ RunSteps

RunNextFair ==
    \/ \E d \in DOMAIN dagbag, ds \in RunDates : CreateRun(d, ds, MaxFairRuns)
    \/ RunSteps

-----------------------------------------------------------------------------
(* Schedules: the calendar, cron expressions and named intervals.          *)

\* Days from 1970-01-01 to the civil date y-m-d.
DaysFromCivil(y, m, d) ==
    LET yy == IF m <= 2 THEN y - 1 ELSE y
        era == yy \div 400
        yoe == yy - era * 400
        mp == IF m > 2 THEN m - 3 ELSE m + 9
        doy == (153 * mp + 2) \div 5 + d - 1
        doe == yoe * 365 + yoe \div 4 - yoe \div 100 + doy
    IN era * 146097 + doe - 719468

\* The civil date of a day number.
CivilFromDays(z) ==
    LET zz == z + 719468
        era == zz \div 146097
        doe == zz - era * 146097
        yoe == (doe - doe \div 1460 + doe \div 36524 - doe \div 146096) \div 365
        doy == doe - (365 * yoe + yoe \div 4 - yoe \div 100)
        mp == (5 * doy + 2) \div 153
        d == doy - (153 * mp + 2) \div 5 + 1
        m == IF mp < 10 THEN mp + 3 ELSE mp - 9
        y == yoe + era * 400 + (IF m <= 2 THEN 1 ELSE 0)
    IN <<y, m, d>>

\* 0 is Sunday; 1970-01-01 was a Thursday.
Weekday(days) == (days + 4) % 7

\* The instant a number of minutes after 1970-01-01 00:00.
InstantAt(minutes) ==
    LET days == minutes \div 1440
        date == CivilFromDays(days)
    IN [month |-> date[2], day |-> date[3], weekday |-> Weekday(days),
        hour |-> (minutes % 1440) \div 60, minute |-> minutes % 60]

\* datetime(y, m, d): midnight of that date, in minutes.
MidnightOf(date) == DaysFromCivil(date[1], date[2], date[3]) * 1440

Digits == <<"0", "1", "2", "3", "4", "5", "6", "7", "8", "9">>
UpperCase == <<"A", "B", "C", "D", "E", "F", "G", "H", "I", "J", "K", "L", "M",
               "N", "O", "P", "Q", "R", "S", "T", "U", "V", "W", "X", "Y", "Z">>
LowerCase == <<"a", "b", "c", "d", "e", "f", "g", "h", "i", "j", "k", "l", "m",
               "n", "o", "p", "q", "r", "s", "t", "u", "v", "w", "x", "y", "z">>

Lower(c) ==
    IF \E i \in 1..26 : UpperCase[i] = c
    THEN LowerCase[CHOOSE i \in 1..26 : UpperCase[i] = c]
    ELSE c

LowerAll(chars) == [i \in 1..Len(chars) |-> Lower(chars[i])]

DayNames == <<<<"s", "u", "n">>, <<"m", "o", "n">>, <<"t", "u", "e">>,
              <<"w", "e", "d">>, <<"t", "h", "u">>, <<"f", "r", "i">>,
              <<"s", "a", "t">>>>

MonthNames == <<<<"j", "a", "n">>, <<"f", "e", "b">>, <<"m", "a", "r">>,
                <<"a", "p", "r">>, <<"m", "a", "y">>, <<"j", "u", "n">>,
                <<"j", "u", "l">>, <<"a", "u", "g">>, <<"s", "e", "p">>,
                <<"o", "c", "t">>, <<"n", "o", "v">>, <<"d", "e", "c">>>>

\* The named intervals and the cron expression each stands for.
Presets ==
    <<[name |-> <<"@", "h", "o", "u", "r", "l", "y">>,
       cron |-> <<"0", " ", "*", " ", "*", " ", "*", " ", "*">>],
      [name |-> <<"@", "d", "a", "i", "l", "y">>,
       cron |-> <<"0", " ", "0", " ", "*", " ", "*", " ", "*">>],
      [name |-> <<"@", "w", "e", "e", "k", "l", "y">>,
       cron |-> <<"0", " ", "0", " ", "*", " ", "*", " ", "0">>],
      [name |-> <<"@", "m", "o", "n", "t", "h", "l", "y">>,
       cron |-> <<"0", " ", "0", " ", "1", " ", "*", " ", "*">>],
      [name |-> <<"@", "y", "e", "a", "r", "l", "y">>,
       cron |-> <<"0", " ", "0", " ", "1", " ", "1", " ", "*">>]>>

IsPreset(chars) == \E i \in 1..Len(Presets) : Presets[i].name = chars

\* A named interval is replaced by its expression.
Expand(chars) ==
    IF IsPreset(chars)
    THEN Presets[CHOOSE i \in 1..Len(Presets) : Presets[i].name = chars].cron
    ELSE chars

RECURSIVE SplitFrom(_, _, _, _)
\* The fields of chars from position i on: cur is the field being read.
SplitFrom(chars, i, cur, acc) ==
    IF i > Len(chars)
    THEN (IF cur = <<>> THEN acc ELSE Append(acc, cur))
    ELSE IF chars[i] = " "
    THEN SplitFrom(chars, i + 1, <<>>, IF cur = <<>> THEN acc ELSE Append(acc, cur))
    ELSE SplitFrom(chars, i + 1, Append(cur, chars[i]), acc)

Split(chars) == SplitFrom(chars, 1, <<>>, <<>>)

IsDigit(c) == \E i \in 1..10 : Digits[i] = c
DigitValue(c) == (CHOOSE i \in 1..10 : Digits[i] = c) - 1

RECURSIVE NatFrom(_, _, _)
NatFrom(field, i, acc) ==
    IF i > Len(field) THEN acc
    ELSE NatFrom(field, i + 1, acc * 10 + DigitValue(field[i]))

IsNumber(field) == field # <<>> /\ \A i \in 1..Len(field) : IsDigit(field[i])

\* The field positions: what a star stands for and which names are read.
FieldRange(pos) ==
    CASE pos = 1 -> 0..59
      [] pos = 2 -> 0..23
      [] pos = 3 -> 1..31
      [] pos = 4 -> 1..12
      [] pos = 5 -> 0..6

NameValue(pos, field) ==
    LET low == LowerAll(field) IN
    IF pos = 5 /\ \E i \in 1..7 : DayNames[i] = low
    THEN (CHOOSE i \in 1..7 : DayNames[i] = low) - 1
    ELSE IF pos = 4 /\ \E i \in 1..12 : MonthNames[i] = low
    THEN CHOOSE i \in 1..12 : MonthNames[i] = low
    ELSE -1

\* The values field number pos selects; the empty set when the field is
\* not a star, a number in range or a name. (No declared schedule uses a
\* list, a range or a step.)
FieldValues(pos, field) ==
    IF field = <<"*">> THEN FieldRange(pos)
    ELSE IF IsNumber(field)
    THEN LET n == NatFrom(field, 1, 0) IN
         IF pos = 5 /\ n = 7 THEN {0}
         ELSE IF n \in FieldRange(pos) THEN {n} ELSE {}
    ELSE IF NameValue(pos, field) >= 0 THEN {NameValue(pos, field)}
    ELSE {}

\* The parsed schedule: valid when it has five fields, each selecting
\* something.
ParseSchedule(chars) ==
    LET fields == Split(Expand(chars)) IN
    IF Len(fields) # 5
    THEN [valid |-> FALSE, sets |-> <<>>, stars |-> <<>>]
    ELSE [valid |-> \A i \in 1..5 : FieldValues(i, fields[i]) # {},
          sets |-> [i \in 1..5 |-> FieldValues(i, fields[i])],
          stars |-> [i \in 1..5 |-> fields[i] = <<"*">>]]

\* Whether the schedule fires at the instant: day of month and day of week
\* are alternatives when both are restricted.
Matches(chars, at) ==
    LET c == ParseSchedule(chars)
        dom == at.day \in c.sets[3]
        dow == at.weekday \in c.sets[5]
    IN /\ c.valid
       /\ at.minute \in c.sets[1]
       /\ at.hour \in c.sets[2]
       /\ at.month \in c.sets[4]
       /\ IF ~c.stars[3] /\ ~c.stars[5] THEN dom \/ dow ELSE dom /\ dow

\* The earliest start date any workflow declares.
Epoch == MidnightOf(<<2025, 12, 16>>)

MaxDays == 8
ProbeMinutes == {0, 1, 30, 59}

ProbeInstants ==
    {Epoch + day * 1440 + hour * 60 + minute :
        day \in 0..MaxDays, hour \in 0..23, minute \in ProbeMinutes}

CronInit ==
    /\ Loaded
    /\ RunIdle
    /\ SchedIdle
    /\ cron_expr \in {dagbag[d].schedule : d \in DOMAIN dagbag}
    /\ cron_at \in ProbeInstants
    /\ cron_hit = ""

\* The scheduler asks whether the schedule fires at the instant.
AskCron ==
    /\ cron_hit = ""
    /\ cron_hit' = IF Matches(cron_expr, InstantAt(cron_at)) THEN "yes" ELSE "no"
    /\ UNCHANGED <<parseVars, runVars, schedVars, cron_expr, cron_at>>

CronNext == AskCron

SpecCron == CronInit /\ [][CronNext]_vars

-----------------------------------------------------------------------------
(* The scheduler: data intervals between consecutive firings of the        *)
(* schedule, and the runs created for them with and without catchup.       *)

MaxHours == 84

\* The scheduler is followed from the latest start date any workflow
\* declares, hour by hour.
FirstLook == MidnightOf(<<2025, 12, 21>>)
LastLook == FirstLook + MaxHours * 60

Horizon == {Epoch + h * 60 : h \in 0..((LastLook - Epoch) \div 60)}

\* The firing times of each workflow's schedule from its start date on.
TickTable ==
    [d \in DOMAIN LoadedDagBag |->
        {t \in Horizon :
            /\ t >= MidnightOf(LoadedDagBag[d].start_date)
            /\ Matches(LoadedDagBag[d].schedule, InstantAt(t))}]

\* The end of the data interval that starts at each firing time: the next
\* firing time.
IntervalEnd ==
    [d \in DOMAIN LoadedDagBag |->
        [a \in {t \in TickTable[d] : \E u \in TickTable[d] : u > t} |->
            CHOOSE t \in TickTable[d] :
                t > a /\ \A u \in TickTable[d] : u > a => t <= u]]

Ticks(d) == TickTable[d]
HasNextTick(d, a) == a \in DOMAIN IntervalEnd[d]
NextTick(d, a) == IntervalEnd[d][a]

\* The starts of the data intervals that have ended by time t and start
\* after the interval last dealt with.
Pending(d, last, t) ==
    {a \in DOMAIN IntervalEnd[d] : a > last /\ IntervalEnd[d][a] <= t}

Earliest(S) == CHOOSE a \in S : \A b \in S : a <= b
Latest(S) == CHOOSE a \in S : \A b \in S : a >= b

\* The interval a run is created for: the oldest one not yet run with
\* catchup, the most recent one without.
NextInterval(dag, pending) ==
    IF dag.catchup THEN Earliest(pending) ELSE Latest(pending)

SchedInit ==
    /\ Loaded
    /\ RunIdle
    /\ CronIdle
    /\ sdag \in DOMAIN dagbag
    /\ now = FirstLook
    /\ activated_at = -1
    /\ last_logical = -1
    /\ runs = <<>>
    /\ done = <<>>

\* An hour passes.
Tick ==
    /\ now < LastLook
    /\ now' = now + 60
    /\ UNCHANGED <<parseVars, runVars, cronVars, sdag, activated_at,
                   last_logical, runs, done>>

\* The workflow is switched on.
Activate ==
    /\ activated_at = -1
    /\ activated_at' = now
    /\ UNCHANGED <<parseVars, runVars, cronVars, sdag, now, last_logical,
                   runs, done>>

\* The scheduler creates the next run that is due.
CreateDagRun ==
    /\ activated_at >= 0
    /\ Pending(sdag, last_logical, now) # {}
    /\ LET a == NextInterval(dagbag[sdag], Pending(sdag, last_logical, now)) IN
        /\ runs' = Append(runs, a)
        /\ last_logical' = a
    /\ UNCHANGED <<parseVars, runVars, cronVars, sdag, now, activated_at, done>>

\* Without catchup the scheduler may also pass over the most recent
\* interval when that one ended before the workflow was switched on.
SkipMissed ==
    /\ activated_at >= 0
    /\ ~dagbag[sdag].catchup
    /\ Pending(sdag, last_logical, now) # {}
    /\ LET a == Latest(Pending(sdag, last_logical, now)) IN
        /\ NextTick(sdag, a) < activated_at
        /\ last_logical' = a
    /\ UNCHANGED <<parseVars, runVars, cronVars, sdag, now, activated_at,
                   runs, done>>

\* The oldest run not yet executed is executed.
ExecuteRun ==
    /\ Len(done) < Len(runs)
    /\ done' = Append(done, runs[Len(done) + 1])
    /\ UNCHANGED <<parseVars, runVars, cronVars, sdag, now, activated_at,
                   last_logical, runs>>

SchedNext ==
    \/ Tick
    \/ Activate
    \/ CreateDagRun
    \/ SkipMissed
    \/ ExecuteRun

SpecSched == SchedInit /\ [][SchedNext]_vars

\* Time passes, due runs are created and created runs are executed.
SpecSchedFair ==
    /\ SpecSched
    /\ WF_vars(Tick)
    /\ WF_vars(CreateDagRun)
    /\ WF_vars(ExecuteRun)

-----------------------------------------------------------------------------
(* Specifications.                                                         *)

Init == ParseInit /\ RunIdle /\ CronIdle /\ SchedIdle

Spec == Init /\ [][ParseNext]_vars

SpecRun == RunInit /\ [][RunNext]_vars

\* The engine takes every step it can take, and every attempt ends.
EngineStep ==
    \/ \E t \in ActiveTaskIds : StartTask(t)
    \/ \E t \in ActiveTaskIds : MarkUpstreamFailed(t)
    \/ \E t \in ActiveTaskIds : RetryTask(t)
    \/ FinishRun

AttemptEnds ==
    \/ \E t \in ActiveTaskIds : AttemptSucceeds(t)
    \/ \E t \in ActiveTaskIds, stage \in {"before", "command", "after"} :
            AttemptFails(t, stage)

SpecRunFair ==
    /\ RunInit
    /\ [][RunNextFair]_vars
    /\ WF_vars(EngineStep)
    /\ WF_vars(AttemptEnds)

-----------------------------------------------------------------------------
(* Properties of the imported DAGs.                                        *)

TCreate == "create_postgres_table"
TDelete == "delete_data_from_table"
TInsert == "insert_into_table"

RECURSIVE ReachFrom(_, _, _)
\* The tasks reached from the set seen in at most n more edges.
ReachFrom(dag, seen, n) ==
    IF n = 0 THEN seen
    ELSE ReachFrom(dag, seen \cup UNION {Downstream(dag, t) : t \in seen}, n - 1)

Descendants(dag, t) ==
    ReachFrom(dag, Downstream(dag, t), Cardinality(TaskIds(dag)))

Acyclic(dag) == \A t \in TaskIds(dag) : t \notin Descendants(dag, t)

DagDeclared(f) == env[f].dag # NoDag

OperatorStmts(f, upto) ==
    {i \in 1..upto : i <= Len(FileText(f)) /\ FileText(f)[i].op = "operator"}

\* C1: the collected SQL workflow has exactly the three steps and exactly
\* the edges create -> delete and delete -> insert: an acyclic linear chain
\* whose only root is create and whose only leaf is insert, with no edge
\* from create to insert.
C1_StepGraph ==
    PgDagId \in DOMAIN dagbag =>
        LET dag == dagbag[PgDagId] IN
        /\ TaskIds(dag) = {TCreate, TDelete, TInsert}
        /\ Len(dag.task_ids) = 3
        /\ dag.edges = {<<TCreate, TDelete>>, <<TDelete, TInsert>>}
        /\ Acyclic(dag)
        /\ \A t \in TaskIds(dag) :
                /\ Cardinality(Upstream(dag, t)) <= 1
                /\ Cardinality(Downstream(dag, t)) <= 1
        /\ Roots(dag) = {TCreate}
        /\ Leaves(dag) = {TInsert}
        /\ <<TCreate, TInsert>> \notin dag.edges

C1_Witness ==
    /\ PgDagId \in DOMAIN dagbag
    /\ Cardinality(dagbag[PgDagId].edges) = 2

\* C4: no import raises on a duplicate identifier; every declared workflow
\* identifier is non-empty and differs from the one of every other file;
\* the identifiers collected are the three declared ones; and inside a
\* workflow every operator statement added a step of its own identifier.
C4_Identifiers ==
    /\ import_errors = {}
    /\ \A f \in Files : DagDeclared(f) =>
            /\ env[f].dag.dag_id # ""
            /\ Len(env[f].dag.dag_id) > 0
            /\ \A g \in Files \ {f} :
                    DagDeclared(g) => env[g].dag.dag_id # env[f].dag.dag_id
            /\ Len(env[f].dag.task_ids)
                    = Cardinality(OperatorStmts(f, pc[f] - 1))
            /\ \A i, j \in 1..Len(env[f].dag.task_ids) :
                    i # j => env[f].dag.task_ids[i] # env[f].dag.task_ids[j]
    /\ DOMAIN dagbag \subseteq
            {"dag_with_catchup_and_backfill_v02", "dag_with_cron_expression_v04",
             "dag_with_postgres_operator_v03"}
    /\ (\A f \in Files : pc[f] = Len(FileText(f)) + 2) =>
            Cardinality(DOMAIN dagbag) = 3

C4_Witness ==
    /\ Cardinality(DOMAIN dagbag) = 3
    /\ \E d, e \in DOMAIN dagbag :
            d # e /\ "task1" \in TaskIds(dagbag[d]) \cap TaskIds(dagbag[e])

\* C7: in every workflow the default retry count is a non-negative integer,
\* no operator statement passes retries or retry_delay of its own, and so
\* every step carries its workflow's default retry count and retry delay.
C7_RetryPolicy ==
    \A f \in Files : DagDeclared(f) =>
        LET dag == env[f].dag IN
        /\ dag.default_args.retries \in Nat
        /\ \A i \in OperatorStmts(f, pc[f] - 1) :
                DOMAIN FileText(f)[i].kwargs \cap {"retries", "retry_delay"} = {}
        /\ \A t \in TaskIds(dag) :
                /\ dag.task_dict[t].retries \in Nat
                /\ dag.task_dict[t].retries = dag.default_args.retries
                /\ dag.task_dict[t].retry_delay = dag.default_args.retry_delay

C7_Witness ==
    /\ Cardinality(DOMAIN dagbag) = 3
    /\ \A d \in DOMAIN dagbag : \A t \in TaskIds(dagbag[d]) :
            dagbag[d].task_dict[t].retries = 5

-----------------------------------------------------------------------------
(* Properties of a DAG run.                                                *)

HasRun == run.state # "none"
PgRun == HasRun /\ run.dag_id = PgDagId

Attempted(t) == run.ti[t].try_number >= 1

\* C2: in a run of the SQL workflow delete has not started unless create
\* succeeded in that run, and insert has not started unless delete
\* succeeded in that run.
C2_Ordering ==
    PgRun =>
        /\ Attempted(TDelete) => run.ti[TCreate].state = "success"
        /\ Attempted(TInsert) => run.ti[TDelete].state = "success"

C2_Witness ==
    /\ PgRun
    /\ run.ti[TCreate].try_number = 3
    /\ run.ti[TDelete].try_number = 2
    /\ run.ti[TInsert].state = "running"

\* The retry delay, in minutes, each workflow declares.
DeclaredDelay(d) == IF d = "dag_with_catchup_and_backfill_v02" THEN 2 ELSE 5

RetryBounds ==
    HasRun => \A t \in DOMAIN run.ti :
        LET ti == run.ti[t] IN
        /\ ti.try_number - 1 <= 5
        /\ ti.state = "failed" => ti.try_number - 1 = 5
        /\ ti.state = "up_for_retry" => ti.try_number - 1 < 5
        /\ ti.waited = IF ti.try_number > 1 THEN DeclaredDelay(run.dag_id) ELSE 0

FailedStays ==
    (HasRun /\ run'.id = run.id) =>
        \A t \in DOMAIN run.ti :
            run.ti[t].state = "failed" => run'.ti[t] = run.ti[t]

\* C3: in every workflow a step is retried at most 5 times after its first
\* attempt; the wait before each retry is the same, 2 minutes in
\* dag_with_catchup_and_backfill_v02 and 5 minutes in the other two; a step
\* is marked failed only when its 5 retries are used up, and a failed step
\* is not attempted again in that run.
C3_Retries == []RetryBounds /\ [][FailedStays]_vars

C3_Witness ==
    /\ HasRun
    /\ run.dag_id = "dag_with_catchup_and_backfill_v02"
    /\ run.ti["task1"].state = "failed"
    /\ run.ti["task1"].try_number = 6
    /\ run.ti["task1"].waited = 2

Quiescent == ~Active

\* C8: when every run so far has ended, the runs of the SQL workflow all
\* ended in success and never overlapped, table dag_runs holds exactly one
\* row (ds, dag_id) for each run date completed at least once and no other
\* row, and no INSERT raised a primary-key conflict.
C8_Idempotent ==
    (Quiescent /\ ~any_failed) =>
        /\ ~pk_conflict
        /\ completed # {} => table.exists
        /\ BagToSet(table.rows) = {<<d, PgDagId>> : d \in completed}
        /\ \A k \in BagToSet(table.rows) : CopiesIn(k, table.rows) = 1

\* A date is run again with its row present, after an INSERT attempt of
\* the run was retried.
C8_Witness ==
    /\ Quiescent /\ ~any_failed
    /\ PgRun /\ run.state = "success"
    /\ run.removed = {<<run.ds, PgDagId>>}
    /\ run.ti[TInsert].try_number = 2
    /\ completed = {run.ds}

\* C9: in a run of the SQL workflow nothing downstream of a failed step is
\* attempted, insert is attempted only when create and delete succeeded, a
\* run whose delete failed adds no row, and the run changes no row other
\* than the one keyed by its own ds and dag_id.
C9_FailureIsolation ==
    PgRun =>
        /\ run.ti[TCreate].state = "failed" =>
                ~Attempted(TDelete) /\ ~Attempted(TInsert)
        /\ run.ti[TDelete].state = "failed" => ~Attempted(TInsert)
        /\ Attempted(TInsert) =>
                /\ run.ti[TCreate].state = "success"
                /\ run.ti[TDelete].state = "success"
        /\ run.ti[TDelete].state = "failed" => run.added = {}
        /\ run.touched \subseteq {<<run.ds, run.dag_id>>}
        /\ run.added \cup run.removed \subseteq run.touched

C9_Witness ==
    /\ PgRun /\ run.state = "failed"
    /\ run.ti[TDelete].state = "failed"
    /\ run.ti[TInsert].state = "upstream_failed"
    /\ \E d \in RunDates : d # run.ds /\ BagIn(<<d, PgDagId>>, table.rows)

RunOutcome ==
    (HasRun /\ ~Active) =>
        /\ \A t \in DOMAIN run.ti : run.ti[t].state \in Terminal
        /\ run.state = "success" <=>
                \A t \in DOMAIN run.ti : run.ti[t].state = "success"

TerminalStays ==
    (HasRun /\ run'.id = run.id) =>
        \A t \in DOMAIN run.ti :
            run.ti[t].state \in Terminal => run'.ti[t] = run.ti[t]

\* C10: no run stays active for ever; when a run has ended each of its
\* steps is succeeded, failed or upstream_failed, and the run is a success
\* exactly when all its steps succeeded; a step in one of those states is
\* never attempted again.
C10_Terminates ==
    /\ []<>(~Active)
    /\ []RunOutcome
    /\ [][TerminalStays]_vars

C10_Witness ==
    /\ PgRun /\ run.state = "failed"
    /\ run.ti[TCreate].state = "failed"
    /\ run.ti[TDelete].state = "upstream_failed"
    /\ run.ti[TInsert].state = "upstream_failed"

-----------------------------------------------------------------------------
(* Properties of the schedules.                                            *)

CatchupDagId == CatchupDag.dag_id
CronDagId == CronDag.dag_id

\* C6: every declared schedule parses as a named interval or as five cron
\* fields, each within its range; '0 3 * * Tue' fires exactly at minute 0
\* of hour 3 on Tuesdays; '0 0 * * *' fires exactly at midnight of every
\* day, and so does '@daily'.
C6_Schedules ==
    /\ \A d \in DOMAIN dagbag :
            LET c == ParseSchedule(dagbag[d].schedule) IN
            /\ c.valid
            /\ \A i \in 1..5 : c.sets[i] # {} /\ c.sets[i] \subseteq FieldRange(i)
    /\ cron_hit # "" =>
        LET at == InstantAt(cron_at) IN
        /\ cron_expr = dagbag[CronDagId].schedule =>
                (cron_hit = "yes" <=>
                    at.minute = 0 /\ at.hour = 3 /\ at.weekday = 2)
        /\ cron_expr = dagbag[PgDagId].schedule =>
                /\ cron_hit = "yes" <=> at.minute = 0 /\ at.hour = 0
                /\ cron_hit = "yes" <=> Matches(dagbag[CatchupDagId].schedule, at)
        /\ cron_expr = dagbag[CatchupDagId].schedule =>
                (cron_hit = "yes" <=> at.minute = 0 /\ at.hour = 0)

\* 2025-12-23 03:00, a Tuesday, asked of '0 3 * * Tue'.
C6_Witness ==
    /\ cron_expr = dagbag[CronDagId].schedule
    /\ cron_at = MidnightOf(<<2025, 12, 23>>) + 180
    /\ InstantAt(cron_at) =
            [month |-> 12, day |-> 23, weekday |-> 2, hour |-> 3, minute |-> 0]
    /\ cron_hit = "yes"

-----------------------------------------------------------------------------
(* Properties of the scheduler.                                            *)

InSeq(x, seq) == \E i \in 1..Len(seq) : seq[i] = x
NoRepeats(seq) == \A i, j \in 1..Len(seq) : i # j => seq[i] # seq[j]

\* The starts of the intervals that ended before the workflow was
\* switched on.
Missed == {a \in Ticks(sdag) : HasNextTick(sdag, a) /\ NextTick(sdag, a) < activated_at}

RunsWellFormed ==
    /\ NoRepeats(runs)
    /\ NoRepeats(done)
    /\ \A i \in 1..Len(runs) :
            /\ runs[i] >= MidnightOf(dagbag[sdag].start_date)
            /\ runs[i] \in Ticks(sdag)
            /\ NextTick(sdag, runs[i]) <= now
    /\ \A i \in 1..Len(done) : InSeq(done[i], runs)

OnlyLatestMissed ==
    sdag = PgDagId =>
        \A i \in 1..Len(runs) : runs[i] \in Missed => runs[i] = Latest(Missed)

MissedAllDone ==
    (sdag \in {CatchupDagId, CronDagId} /\ activated_at >= 0) =>
        \A a \in Missed : InSeq(a, done)

\* C5 as stated, for the workflow without catchup: no run is created for
\* an interval that ended before the workflow was switched on.
C5_NoMissedRunWithoutCatchup ==
    sdag = PgDagId => \A i \in 1..Len(runs) : runs[i] \notin Missed

\* C5, amended: with catchup every interval from the start date on that
\* ended before the workflow was switched on is eventually run; no
\* workflow runs an interval twice or one that starts before its start
\* date; and without catchup the only interval ended before the switching
\* on that can get a run is the most recent one.
C5_Catchup ==
    /\ []RunsWellFormed
    /\ []OnlyLatestMissed
    /\ []<>MissedAllDone

\* The daily workflow with catchup, switched on three days late, has run
\* its three missed intervals.
C5_Witness ==
    /\ sdag = CatchupDagId
    /\ Cardinality(Missed) = 3
    /\ \A a \in Missed : InSeq(a, done)
    /\ done[1] = MidnightOf(<<2025, 12, 21>>)

====
